---- MODULE Spec2Model ----
(***************************************************************************)
(* A model of xvega_bindings.hpp: the generic parser engine parser_base    *)
(* (simple_switch, parse_step, parse_loop, visit_any), its four grammars   *)
(* (bin_parser, field_parser, mark_parser, xv_sqlite_parser) and the entry *)
(* point process_xvega_input.                                              *)
(*                                                                         *)
(* A token is a sequence of one-character strings, so that case folding    *)
(* and number conversion are computed character by character.  A cursor    *)
(* (input_it) is an index into the token sequence; tokens.end() is         *)
(* Len(tokens) + 1.  The recursion parse_loop -> parse_step -> handler ->  *)
(* nested parse_loop is an explicit stack of frames, one per running       *)
(* parse_loop.  Dereferencing a cursor at or past end() is undefined       *)
(* behaviour: the model lets it either crash or yield any token of Garbage.*)
(***************************************************************************)
EXTENDS Integers, Sequences, FiniteSets, TLC

(* ----------------------------- bounds ---------------------------------- *)
(* Longest input of the exhaustively enumerated short inputs. *)
MaxLen == 3
(* How many positions at or past end() a read may still yield a token. *)
MaxOverrun == 2

(* ------------------------- characters and case ------------------------- *)
Lower == <<"a","b","c","d","e","f","g","h","i","j","k","l","m",
           "n","o","p","q","r","s","t","u","v","w","x","y","z">>
Upper == <<"A","B","C","D","E","F","G","H","I","J","K","L","M",
           "N","O","P","Q","R","S","T","U","V","W","X","Y","Z">>
Digits == <<"0","1","2","3","4","5","6","7","8","9">>

IndexOf(c, s) == IF \E i \in 1..Len(s) : s[i] = c
                 THEN CHOOSE i \in 1..Len(s) : s[i] = c
                 ELSE 0

(* to_upper / to_lower of utils.hpp: fold every letter of the string. *)
to_upper(s) == [i \in 1..Len(s) |->
                  IF IndexOf(s[i], Lower) # 0 THEN Upper[IndexOf(s[i], Lower)] ELSE s[i]]
to_lower(s) == [i \in 1..Len(s) |->
                  IF IndexOf(s[i], Upper) # 0 THEN Lower[IndexOf(s[i], Upper)] ELSE s[i]]

(* std::stoi / std::stod on the tokens of this model: an optional sign and *)
(* the longest prefix of decimal digits; a token without a leading digit   *)
(* throws std::invalid_argument (ok = FALSE).  The tokens of the model are *)
(* short, so out_of_range and the fraction/exponent syntax of stod are not *)
(* reached.                                                                *)
RECURSIVE DigitPrefix(_, _, _)
DigitPrefix(s, i, acc) ==
    IF i > Len(s) \/ IndexOf(s[i], Digits) = 0 THEN acc
    ELSE DigitPrefix(s, i + 1, acc * 10 + (IndexOf(s[i], Digits) - 1))
stoi(s) ==
    LET first == IF Len(s) > 0 /\ s[1] \in {"+", "-"} THEN 2 ELSE 1
        neg   == Len(s) > 0 /\ s[1] = "-"
        v     == DigitPrefix(s, first, 0)
    IN  IF first > Len(s) \/ IndexOf(s[first], Digits) = 0
        THEN [ok |-> FALSE, val |-> 0]
        ELSE [ok |-> TRUE, val |-> IF neg THEN 0 - v ELSE v]

(* ------------------------ command tables ------------------------------- *)
(* bin_parser::mapping_table: every handler takes a point iterator. *)
bin_table ==
    { [key |-> <<"A","N","C","H","O","R">>, min |-> 1, kind |-> "point", fn |-> "parse_bin_anchor"],
      [key |-> <<"B","A","S","E">>, min |-> 1, kind |-> "point", fn |-> "parse_bin_base"],
      [key |-> <<"B","I","N","N","E","D">>, min |-> 1, kind |-> "point", fn |-> "parse_bin_binned"],
      [key |-> <<"M","A","X","B","I","N","S">>, min |-> 1, kind |-> "point", fn |-> "parse_bin_maxbins"],
      [key |-> <<"M","I","N","S","T","E","P">>, min |-> 1, kind |-> "point", fn |-> "parse_bin_minstep"],
      [key |-> <<"N","I","C","E">>, min |-> 1, kind |-> "point", fn |-> "parse_bin_nice"],
      [key |-> <<"S","T","E","P">>, min |-> 1, kind |-> "point", fn |-> "parse_bin_step"] }

(* field_parser::mapping_table. *)
field_table ==
    { [key |-> <<"T","Y","P","E">>, min |-> 1, kind |-> "point", fn |-> "parse_field_type"],
      [key |-> <<"B","I","N">>, min |-> 1, kind |-> "range", fn |-> "parse_field_bin"],
      [key |-> <<"A","G","G","R","E","G","A","T","E">>, min |-> 1, kind |-> "range", fn |-> "parse_field_aggregate"],
      [key |-> <<"T","I","M","E","_","U","N","I","T">>, min |-> 1, kind |-> "point", fn |-> "parse_field_time_unit"] }

(* mark_parser::mapping_table. *)
mark_table ==
    { [key |-> <<"C","O","L","O","R">>, min |-> 1, kind |-> "point", fn |-> "parse_color"] }

(* xv_sqlite_parser::mapping_table. *)
top_table ==
    { [key |-> <<"W","I","D","T","H">>, min |-> 1, kind |-> "point", fn |-> "parse_width"],
      [key |-> <<"H","E","I","G","H","T">>, min |-> 1, kind |-> "point", fn |-> "parse_height"],
      [key |-> <<"X","_","F","I","E","L","D">>, min |-> 1, kind |-> "range", fn |-> "parse_x_field"],
      [key |-> <<"Y","_","F","I","E","L","D">>, min |-> 1, kind |-> "range", fn |-> "parse_y_field"],
      [key |-> <<"M","A","R","K">>, min |-> 1, kind |-> "range", fn |-> "parse_mark"],
      [key |-> <<"G","R","I","D">>, min |-> 1, kind |-> "point", fn |-> "parse_grid"],
      [key |-> <<"T","I","T","L","E">>, min |-> 1, kind |-> "point", fn |-> "parse_title"] }

(* The TRUE/FALSE handler map given to simple_switch by the toggles. *)
toggle_handlers ==
    { [key |-> <<"T","R","U","E">>, val |-> TRUE],
      [key |-> <<"F","A","L","S","E">>, val |-> FALSE] }

(* The handler map of parse_field_type: keyword and the kind it stores. *)
type_handlers ==
    { [key |-> <<"Q","U","A","N","T","I","T","A","T","I","V","E">>, val |-> "quantitative"],
      [key |-> <<"N","O","M","I","N","A","L">>, val |-> "nominal"],
      [key |-> <<"O","R","D","I","N","A","L">>, val |-> "ordinal"],
      [key |-> <<"T","E","M","P","O","R","A","L">>, val |-> "temporal"] }

(* The handler map of parse_field_aggregate. *)
aggregate_handlers ==
    { [key |-> <<"C","O","U","N","T">>, val |-> "count"],
      [key |-> <<"V","A","L","I","D">>, val |-> "valid"],
      [key |-> <<"M","I","S","S","I","N","G">>, val |-> "missing"],
      [key |-> <<"D","I","S","T","I","N","C","T">>, val |-> "distinct"],
      [key |-> <<"S","U","M">>, val |-> "sum"],
      [key |-> <<"P","R","O","D","U","C","T">>, val |-> "product"],
      [key |-> <<"M","E","A","N">>, val |-> "mean"],
      [key |-> <<"A","V","E","R","A","G","E">>, val |-> "average"],
      [key |-> <<"V","A","R","I","A","N","C","E">>, val |-> "variance"],
      [key |-> <<"V","A","R","I","A","N","C","E","P">>, val |-> "variancep"],
      [key |-> <<"S","T","D","E","V">>, val |-> "stdev"],
      [key |-> <<"S","T","E","D","E","V","P">>, val |-> "stedevp"],
      [key |-> <<"S","T","E","D","E","R","R">>, val |-> "stederr"],
      [key |-> <<"M","E","D","I","A","N">>, val |-> "median"],
      [key |-> <<"Q","1">>, val |-> "q1"],
      [key |-> <<"Q","3">>, val |-> "q3"],
      [key |-> <<"C","I","0">>, val |-> "ci0"],
      [key |-> <<"C","I","1">>, val |-> "ci1"],
      [key |-> <<"M","I","N">>, val |-> "min"],
      [key |-> <<"M","A","X">>, val |-> "max"],
      [key |-> <<"A","R","G","M","I","N">>, val |-> "argmin"],
      [key |-> <<"A","R","G","M","A","X">>, val |-> "argmax"] }

(* A time-unit map in which DATE stores what DAY stores. *)
time_unit_handlers_dup ==
    { [key |-> <<"Y","E","A","R">>, val |-> "year"],
      [key |-> <<"D","A","Y">>, val |-> "day"],
      [key |-> <<"D","A","T","E">>, val |-> "day"] }

(* The handler map of parse_field_time_unit. *)
time_unit_handlers ==
    { [key |-> <<"Y","E","A","R">>, val |-> "year"],
      [key |-> <<"Q","U","A","R","T","E","R">>, val |-> "quarter"],
      [key |-> <<"M","O","N","T","H">>, val |-> "month"],
      [key |-> <<"D","A","Y">>, val |-> "day"],
      [key |-> <<"D","A","T","E">>, val |-> "date"],
      [key |-> <<"H","O","U","R","S">>, val |-> "hours"],
      [key |-> <<"M","I","N","U","T","E","S">>, val |-> "minutes"],
      [key |-> <<"S","E","C","O","N","D","S">>, val |-> "seconds"],
      [key |-> <<"M","I","L","I","S","E","C","O","N","D","S">>, val |-> "miliseconds"] }

(* The handler map of mark_parser::parse_init: keyword and the mark shape it stores. *)
mark_handlers ==
    { [key |-> <<"A","R","C">>, val |-> "mark_arc"],
      [key |-> <<"A","R","E","A">>, val |-> "mark_area"],
      [key |-> <<"B","A","R">>, val |-> "mark_bar"],
      [key |-> <<"C","I","R","C","L","E">>, val |-> "mark_circle"],
      [key |-> <<"L","I","N","E">>, val |-> "mark_line"],
      [key |-> <<"P","O","I","N","T">>, val |-> "mark_point"],
      [key |-> <<"R","E","C","T">>, val |-> "mark_rect"],
      [key |-> <<"R","U","L","E">>, val |-> "mark_rule"],
      [key |-> <<"S","Q","U","A","R","E">>, val |-> "mark_square"],
      [key |-> <<"T","I","C","K">>, val |-> "mark_tick"],
      [key |-> <<"T","R","A","I","L">>, val |-> "mark_trail"] }

(* An absent table entry (find() = end()) and an absent optional value. *)
NoEntry == [key |-> <<>>, min |-> 0, kind |-> "none", fn |-> "none"]
NoHandler == [key |-> <<>>, val |-> "none"]

mapping_table(g) ==
    CASE g = "top"   -> top_table
      [] g = "field" -> field_table
      [] g = "mark"  -> mark_table
      [] g = "bin"   -> bin_table

(* std::map::find on a command table, keyed by the folded token. *)
find(table, k) == IF \E e \in table : e.key = k
                  THEN CHOOSE e \in table : e.key = k
                  ELSE NoEntry

(* A lookup that forgets to fold the token. *)
lookup_exact(g, tok) == find(mapping_table(g), tok)

(* parse_step, lines 156-160: the table entry of the token at the cursor. *)
lookup(g, tok) == find(mapping_table(g), to_upper(tok))

(* simple_switch, line 129: handler_it != handlers.end(). *)
Found(h) == h.key # <<>>

(* A switch with a default branch: a miss runs some handler. *)
simple_switch_default(tok, handlers) ==
    IF \E h \in handlers : h.key = to_upper(tok)
    THEN CHOOSE h \in handlers : h.key = to_upper(tok)
    ELSE CHOOSE h \in handlers : TRUE

(* simple_switch: the handler the token selects, NoHandler when it returns *)
(* false.  The caller applies the handler's effect (its val).              *)
simple_switch(tok, handlers) ==
    IF \E h \in handlers : h.key = to_upper(tok)
    THEN CHOOSE h \in handlers : h.key = to_upper(tok)
    ELSE NoHandler

(* parse_color's visitor map: the shapes a colour handler is registered for. *)
color_visitor ==
    { "mark_arc", "mark_area", "mark_bar", "mark_circle", "mark_line", "mark_point",
      "mark_rect", "mark_rule", "mark_square", "mark_tick", "mark_trail" }

(* A dispatch that falls back to some registered handler. *)
visit_any_first(a, any_visitor) ==
    IF a \in any_visitor THEN {a} ELSE { CHOOSE k \in any_visitor : TRUE }
(* A dispatch that invokes every registered handler. *)
visit_any_all(a, any_visitor) == any_visitor

(* visit_any: the handlers invoked for a value of shape a, at most the one *)
(* registered under a; none (a diagnostic only) when a is not registered.  *)
visit_any(a, any_visitor) == IF a \in any_visitor THEN {a} ELSE {}

(* ------------------------------ tokens --------------------------------- *)
t_WIDTH   == <<"W","I","D","T","H">>
t_HEIGHT  == <<"H","E","I","G","H","T">>
t_X_FIELD == <<"X","_","F","I","E","L","D">>
t_Y_FIELD == <<"Y","_","F","I","E","L","D">>
t_MARK    == <<"M","A","R","K">>
t_mark    == <<"m","a","r","k">>
t_GRID    == <<"G","R","I","D">>
t_TITLE   == <<"T","I","T","L","E">>
t_TYPE    == <<"T","Y","P","E">>
t_Type    == <<"T","y","p","e">>
t_BIN     == <<"B","I","N">>
t_AGGREGATE == <<"A","G","G","R","E","G","A","T","E">>
t_TIME_UNIT == <<"T","I","M","E","_","U","N","I","T">>
t_COLOR   == <<"C","O","L","O","R">>
t_color   == <<"c","o","l","o","r">>
t_TRUE    == <<"T","R","U","E">>
t_FALSE   == <<"F","A","L","S","E">>
t_false   == <<"f","a","l","s","e">>
t_BAR     == <<"B","A","R">>
t_Bar     == <<"B","a","r">>
t_bar     == <<"b","a","r">>
t_barr    == <<"b","a","r","r">>
t_RED     == <<"R","E","D">>
t_Red     == <<"R","e","d">>
t_red     == <<"r","e","d">>
t_price   == <<"p","r","i","c","e">>
t_Qty     == <<"Q","t","y">>
t_qty     == <<"q","t","y">>
t_FOO     == <<"F","O","O">>
t_400     == <<"4","0","0">>
t_7       == <<"7">>
t_7px     == <<"7","p","x">>
t_SUM     == <<"S","U","M">>
t_YEAR    == <<"Y","E","A","R">>
t_ORDINAL == <<"O","R","D","I","N","A","L">>
t_nominal == <<"n","o","m","i","n","a","l">>
t_ANCHOR  == <<"A","N","C","H","O","R">>
t_BASE    == <<"B","A","S","E">>
t_BINNED  == <<"B","I","N","N","E","D">>
t_MAXBINS == <<"M","A","X","B","I","N","S">>
t_MINSTEP == <<"M","I","N","S","T","E","P">>
t_NICE    == <<"N","I","C","E">>
t_STEP    == <<"S","T","E","P">>

(* ------------------------------ inputs --------------------------------- *)
(* What a read at or past end() may yield when it does not crash. *)
Garbage == { t_FOO, t_TRUE, t_7, t_WIDTH, t_bar, t_TYPE }

CoreAlphabet == { t_WIDTH, t_X_FIELD, t_MARK, t_BIN, t_TRUE, t_bar, t_COLOR, t_400, t_TYPE }
ShortInputs == UNION { [1..n -> CoreAlphabet] : n \in 0..MaxLen }

TypeKeys == { h.key : h \in type_handlers }
MarkKeys == { h.key : h \in mark_handlers }

ScenarioA(n1, k1, n2, k2, m, c, g) ==
    << t_X_FIELD, n1, t_TYPE, k1, t_Y_FIELD, n2, t_TYPE, k2, t_MARK, m, t_COLOR, c, t_GRID, g >>
ScenarioInputs ==
    { ScenarioA(n1, k1, t_qty, k2, m, c, g) :
        n1 \in {t_price, t_TYPE}, k1 \in TypeKeys \cup {t_nominal}, k2 \in TypeKeys \cup {t_nominal},
        m \in MarkKeys, c \in {t_RED, t_red}, g \in {t_TRUE, t_false} }

MarkInputs ==
    { <<mk, m>> \o tail :
        mk \in {t_MARK, t_mark}, m \in MarkKeys \cup {t_Bar, t_bar, t_barr},
        tail \in { <<>>, <<t_COLOR, t_Red>>, <<t_color, t_red, t_COLOR, t_RED>>,
                   <<t_COLOR>>, <<t_FOO>> } }

BinClauses ==
    { <<t_ANCHOR, t_7>>, <<t_BASE, t_400>>, <<t_BINNED, t_TRUE>>, <<t_BINNED, t_FOO>>,
      <<t_MAXBINS, t_7>>, <<t_MAXBINS, t_FOO>>, <<t_MINSTEP, t_7>>, <<t_NICE, t_false>>,
      <<t_NICE, t_FOO>>, <<t_STEP, t_7px>> }
FieldClauses ==
    { <<t_TYPE, t_ORDINAL>>, <<t_Type, t_nominal>>, <<t_TYPE, t_FOO>>,
      <<t_AGGREGATE, t_SUM>>, <<t_AGGREGATE, t_FOO>>,
      <<t_TIME_UNIT, t_YEAR>>, <<t_TIME_UNIT, t_FOO>>,
      <<t_BIN, t_TRUE>>, <<t_BIN, t_false>>, <<t_BIN>>, <<t_BIN, t_FOO>> }
    \cup { <<t_BIN>> \o b1 \o b2 : b1 \in BinClauses, b2 \in BinClauses \cup {<<>>} }
FieldInputs ==
    { <<kw, t_price>> \o a1 \o a2 \o tail :
        kw \in {t_X_FIELD, t_Y_FIELD}, a1 \in FieldClauses,
        a2 \in { <<>>, <<t_TYPE, t_ORDINAL>>, <<t_TYPE, t_FOO>>, <<t_BIN, t_TRUE>> },
        tail \in { <<>>, <<t_FOO>>, <<t_GRID, t_FALSE>> } }

TopClauses ==
    { <<t_WIDTH, t_400>>, <<t_WIDTH, t_FOO>>, <<t_HEIGHT, t_7px>>, <<t_GRID, t_false>>,
      <<t_GRID, t_FOO>>, <<t_TITLE, t_FOO>>, <<t_FOO>>, <<t_X_FIELD, t_Qty>>,
      <<t_Y_FIELD, t_qty, t_TYPE, t_ORDINAL>>, <<t_MARK, t_Bar, t_COLOR, t_Red>>,
      <<t_HEIGHT>>, <<t_X_FIELD>> }
TopInputs ==
    { a \o b : a \in TopClauses \cup {<<>>}, b \in TopClauses \cup {<<>>} }

Inputs == ShortInputs \cup ScenarioInputs \cup MarkInputs \cup FieldInputs \cup TopInputs

(* ------------------------------- state --------------------------------- *)
VARIABLES
    tokens,       \* tokenized_input
    stack,        \* the running parse_loop calls, outermost first
    chart,        \* the xv::Chart being populated
    pc,           \* "parse", "check" (parse_loop returned) or "done"
    result,       \* "none", "ok", or the message of the exception thrown
    last_parsed,  \* the cursor the top-level parse_loop returned
    trace,        \* history: what parse_step, simple_switch, visit_any did
    reads,        \* history: the positions dereferenced
    consumed,     \* history: the positions a cursor stepped over, in order
    first         \* history: the outcome of an earlier run on the same tokens

vars == << tokens, stack, chart, pc, result, last_parsed, trace, reads, consumed, first >>

end == Len(tokens) + 1
cur == stack[Len(stack)]
parent == stack[Len(stack) - 1]

(* *it: the token at p, or any of Garbage for p at or shortly past end(). *)
ReadAt(p) == IF p >= 1 /\ p < end THEN { tokens[p] }
             ELSE IF p < end + MaxOverrun THEN Garbage ELSE {}

EmptyBin == [ anchor |-> <<>>, base |-> <<>>, binned |-> <<>>, maxbins |-> <<>>,
              minstep |-> <<>>, nice |-> <<>>, step |-> <<>> ]
NoBin == [ kind |-> "none", b |-> FALSE, obj |-> EmptyBin ]
NewField == [ set |-> TRUE, field |-> <<>>, type |-> "none", bin |-> NoBin,
              aggregate |-> "none", timeUnit |-> "none" ]
NoField == [ NewField EXCEPT !.set = FALSE ]
NoMark == [ kind |-> "none", color |-> <<>> ]
NewChart == [ width |-> <<>>, height |-> <<>>, x |-> NoField, y |-> NoField,
              mark |-> NoMark, grid |-> <<>> ]

(* No earlier run: nothing returned, nothing thrown. *)
NoRun == [ result |-> "none", chart |-> NewChart, last_parsed |-> 0 ]

(* A parser object entering parse_loop(begin, end). *)
Frame(g, begin, enc) ==
    [ g |-> g, it |-> begin, ph |-> "init", enc |-> enc,
      bin |-> EmptyBin, num_parsed_attrs |-> 0 ]

Init ==
    /\ tokens \in Inputs
    /\ stack = << Frame("top", 1, "-") >>
    /\ chart = NewChart
    /\ pc = "parse"
    /\ result = "none"
    /\ last_parsed = 0
    /\ trace = <<>>
    /\ reads = {}
    /\ consumed = <<>>
    /\ first = NoRun

(* ----------------------------- the engine ------------------------------ *)
Ev(ev, fn, pos, tok, key) ==
    [ ev |-> ev, g |-> cur.g, fn |-> fn, pos |-> pos, tok |-> tok, key |-> key,
      fired |-> {}, cites |-> <<>> ]
Ate(positions) == [ i \in 1..Len(positions) |-> [ pos |-> positions[i], g |-> cur.g ] ]

Running == pc = "parse"
AtInit(g) == Running /\ cur.g = g /\ cur.ph = "init"
(* parse_loop, line 200: the loop body runs while it != end. *)
AtStep == Running /\ cur.ph = "loop" /\ cur.it # end
LoopDone == Running /\ (cur.ph = "ret" \/ (cur.ph = "loop" /\ cur.it = end))

(* parse_step, line 165: std::distance(it, end) < number_required_arguments. *)
arguments_missing(it, e, min) == (e - it) < min

(* parse_step, lines 156-168: the keyword read at the cursor selects fn and *)
(* passes the arity check.                                                 *)
Dispatch(fn, kw) ==
    LET cmd == lookup(cur.g, kw)
    IN  cmd.fn = fn /\ ~ arguments_missing(cur.it, end, cmd.min)

(* A step that does not move past the value of a point handler. *)
point_result_one(it) == it + 1
(* A step that moves one past the cursor a range handler returned. *)
range_result_skip(returned) == returned + 1

(* A step that returns a cursor before the keyword. *)
point_result_back(it) == it - 1

(* parse_step, lines 171-179: past the keyword, then past the value the    *)
(* point handler looked at.                                                *)
point_result(it) == (it + 1) + 1
(* parse_step, lines 183-185: the cursor a range handler returns is adopted. *)
range_result(returned) == returned

(* A loop that stops after its first step. *)
loop_next_once(f, next) == [ f EXCEPT !.it = next, !.ph = "ret" ]

(* parse_loop, lines 202-209: a step that returned its own cursor ends the *)
(* loop, any other result becomes the cursor.                              *)
loop_next(f, next) ==
    IF next = f.it THEN [ f EXCEPT !.ph = "ret" ] ELSE [ f EXCEPT !.it = next ]

Go(stack2, chart2, evs, rds, ate) ==
    /\ stack' = stack2
    /\ chart' = chart2
    /\ trace' = trace \o evs
    /\ reads' = reads \cup rds
    /\ consumed' = consumed \o ate
    /\ UNCHANGED << tokens, pc, result, last_parsed, first >>

(* An exception that undoes what the parse had applied. *)
Throw_rollback(msg, evs, rds, ate) ==
    /\ pc' = "done"
    /\ result' = msg
    /\ chart' = NewChart
    /\ trace' = trace \o evs
    /\ reads' = reads \cup rds
    /\ consumed' = consumed \o ate
    /\ UNCHANGED << tokens, stack, last_parsed, first >>

(* An exception leaves process_xvega_input: nothing is returned. *)
Throw(msg, evs, rds, ate) ==
    /\ pc' = "done"
    /\ result' = msg
    /\ trace' = trace \o evs
    /\ reads' = reads \cup rds
    /\ consumed' = consumed \o ate
    /\ UNCHANGED << tokens, stack, chart, last_parsed, first >>

(* The current frame replaced by f after a step that returned next. *)
Stepped(f, next) == [ stack EXCEPT ![Len(stack)] = loop_next(f, next) ]
(* The innermost parse_loop returned to the handler of the parent frame. *)
Returned(next) == [ i \in 1..(Len(stack) - 1) |->
                      IF i = Len(stack) - 1 THEN loop_next(stack[i], next) ELSE stack[i] ]

(* A point handler fn ran on value v: ok with the new frame and chart, or  *)
(* an exception msg.                                                       *)
PointStep(fn, kw, v, ok, msg, f2, chart2, evs) ==
    /\ AtStep
    /\ Dispatch(fn, kw)
    /\ LET step == Ev("step", fn, cur.it, kw, lookup(cur.g, kw).key)
       IN  IF ok
           THEN Go(Stepped(f2, point_result(cur.it)), chart2, <<step>> \o evs,
                   {cur.it, cur.it + 1}, Ate(<<cur.it, cur.it + 1>>))
           ELSE Throw(msg, <<step>> \o evs, {cur.it, cur.it + 1}, Ate(<<cur.it>>))

(* A step that rejects a token the table does not hold. *)
parse_step_no_match_throw ==
    /\ AtStep
    /\ \E kw \in ReadAt(cur.it) :
         /\ lookup(cur.g, kw) = NoEntry
         /\ Throw("Unknown command.", << Ev("nomatch", "none", cur.it, kw, <<>>) >>,
                  {cur.it}, <<>>)

(* parse_step, lines 157-160: no table entry, the cursor comes back as is. *)
parse_step_no_match ==
    /\ AtStep
    /\ \E kw \in ReadAt(cur.it) :
         /\ lookup(cur.g, kw) = NoEntry
         /\ Go(Stepped(cur, cur.it), chart, << Ev("nomatch", "none", cur.it, kw, <<>>) >>,
               {cur.it}, <<>>)

(* parse_step, lines 165-168. *)
parse_step_arguments_missing ==
    /\ AtStep
    /\ \E kw \in ReadAt(cur.it) :
         LET cmd == lookup(cur.g, kw)
         IN  /\ cmd # NoEntry
             /\ arguments_missing(cur.it, end, cmd.min)
             /\ Throw("Arguments missing.", << Ev("args", cmd.fn, cur.it, kw, cmd.key) >>,
                      {cur.it}, <<>>)

(* parser_base::parse_init, the default used by bin_parser. *)
parse_init ==
    /\ AtInit("bin")
    /\ Go([ stack EXCEPT ![Len(stack)].ph = "loop" ], chart,
          << Ev("init", "parse_init", cur.it, <<>>, <<>>) >>, {}, <<>>)

(* ----------------------------- bin_parser ------------------------------ *)
(* parse_bin_anchor .. parse_bin_step: std::stod of the value into attr.   *)
BinNumber(fn, attr) ==
    \E kw \in ReadAt(cur.it), v \in ReadAt(cur.it + 1) :
        LET n == stoi(v)
        IN  PointStep(fn, kw, v, n.ok, "invalid_argument",
                      [ cur EXCEPT !.bin[attr] = << n.val >>,
                                   !.num_parsed_attrs = @ + 1 ],
                      chart, << Ev("value", fn, cur.it + 1, v, <<>>) >>)

(* A toggle that counts a value it did not store. *)
BinToggle_counts(fn, attr) ==
    \E kw \in ReadAt(cur.it), v \in ReadAt(cur.it + 1) :
        LET h == simple_switch(v, toggle_handlers)
        IN  PointStep(fn, kw, v, TRUE, "none",
                      IF ~ Found(h) THEN [ cur EXCEPT !.num_parsed_attrs = @ + 1 ]
                      ELSE [ cur EXCEPT !.bin[attr] = << h.val >>,
                                        !.num_parsed_attrs = @ + 1 ],
                      chart, << Ev("switch", fn, cur.it + 1, v, h.key) >>)

(* parse_bin_binned, parse_bin_nice: a TRUE/FALSE switch whose miss is     *)
(* ignored.                                                                *)
BinToggle(fn, attr) ==
    \E kw \in ReadAt(cur.it), v \in ReadAt(cur.it + 1) :
        LET h == simple_switch(v, toggle_handlers)
        IN  PointStep(fn, kw, v, TRUE, "none",
                      IF ~ Found(h) THEN cur
                      ELSE [ cur EXCEPT !.bin[attr] = << h.val >>,
                                        !.num_parsed_attrs = @ + 1 ],
                      chart, << Ev("switch", fn, cur.it + 1, v, h.key) >>)

parse_bin_anchor  == BinNumber("parse_bin_anchor", "anchor")
parse_bin_base    == BinNumber("parse_bin_base", "base")
parse_bin_binned  == BinToggle("parse_bin_binned", "binned")
parse_bin_maxbins == BinNumber("parse_bin_maxbins", "maxbins")
parse_bin_minstep == BinNumber("parse_bin_minstep", "minstep")
parse_bin_nice    == BinToggle("parse_bin_nice", "nice")
parse_bin_step    == BinNumber("parse_bin_step", "step")

(* ---------------------------- field_parser ----------------------------- *)
(* An init step that folds the field name. *)
field_parse_init_lower ==
    /\ AtInit("field")
    /\ \E t \in ReadAt(cur.it) :
         Go([ stack EXCEPT ![Len(stack)] = [ cur EXCEPT !.it = cur.it + 1, !.ph = "loop" ] ],
            [ chart EXCEPT ![cur.enc].field = to_lower(t), ![cur.enc].type = "quantitative" ],
            << Ev("init", "parse_init", cur.it, t, <<>>) >>, {cur.it}, Ate(<<cur.it>>))

(* An init step that leaves the kind of the field unset. *)
field_parse_init_nodefault ==
    /\ AtInit("field")
    /\ \E t \in ReadAt(cur.it) :
         Go([ stack EXCEPT ![Len(stack)] = [ cur EXCEPT !.it = cur.it + 1, !.ph = "loop" ] ],
            [ chart EXCEPT ![cur.enc].field = t ],
            << Ev("init", "parse_init", cur.it, t, <<>>) >>, {cur.it}, Ate(<<cur.it>>))

(* field_parser::parse_init: the token at begin is the field name. *)
field_parse_init ==
    /\ AtInit("field")
    /\ \E t \in ReadAt(cur.it) :
         Go([ stack EXCEPT ![Len(stack)] = [ cur EXCEPT !.it = cur.it + 1, !.ph = "loop" ] ],
            [ chart EXCEPT ![cur.enc].field = t, ![cur.enc].type = "quantitative" ],
            << Ev("init", "parse_init", cur.it, t, <<>>) >>, {cur.it}, Ate(<<cur.it>>))

(* An enumeration whose miss clears the attribute before it throws. *)
FieldEnum_clobber(fn, handlers, attr, msg) ==
    /\ AtStep
    /\ \E kw \in ReadAt(cur.it), v \in ReadAt(cur.it + 1) :
         LET h == simple_switch(v, handlers)
             evs == << Ev("step", fn, cur.it, kw, lookup(cur.g, kw).key),
                       Ev("switch", fn, cur.it + 1, v, h.key) >>
         IN  /\ Dispatch(fn, kw)
             /\ IF Found(h)
                THEN Go(Stepped(cur, point_result(cur.it)),
                        [ chart EXCEPT ![cur.enc][attr] = h.val ],
                        evs, {cur.it, cur.it + 1}, Ate(<<cur.it, cur.it + 1>>))
                ELSE /\ pc' = "done"
                     /\ result' = msg
                     /\ chart' = [ chart EXCEPT ![cur.enc][attr] = "none" ]
                     /\ trace' = trace \o evs
                     /\ reads' = reads \cup {cur.it, cur.it + 1}
                     /\ consumed' = consumed \o Ate(<<cur.it>>)
                     /\ UNCHANGED << tokens, stack, last_parsed, first >>

(* A required enumeration: simple_switch stores the value or the handler   *)
(* throws.                                                                 *)
FieldEnum(fn, handlers, attr, msg) ==
    \E kw \in ReadAt(cur.it), v \in ReadAt(cur.it + 1) :
        LET h == simple_switch(v, handlers)
        IN  PointStep(fn, kw, v, Found(h), msg, cur,
                      IF ~ Found(h) THEN chart
                      ELSE [ chart EXCEPT ![cur.enc][attr] = h.val ],
                      << Ev("switch", fn, cur.it + 1, v, h.key) >>)

parse_field_type ==
    FieldEnum("parse_field_type", type_handlers, "type", "Missing or invalid TYPE type")

(* A range handler that looks at one token and returns begin + 1. *)
parse_field_aggregate ==
    FieldEnum("parse_field_aggregate", aggregate_handlers, "aggregate",
              "Missing or invalid AGGREGATE type")

parse_field_time_unit ==
    FieldEnum("parse_field_time_unit", time_unit_handlers, "timeUnit",
              "Missing or invalid TIME_UNIT type")

(* parse_field_bin, lines 355-372: TRUE/FALSE sets the bin and returns     *)
(* begin + 1; anything else starts a bin_parser loop at begin.             *)
parse_field_bin ==
    /\ AtStep
    /\ \E kw \in ReadAt(cur.it), v \in ReadAt(cur.it + 1) :
         LET h == simple_switch(v, toggle_handlers)
             evs == << Ev("step", "parse_field_bin", cur.it, kw, lookup(cur.g, kw).key),
                       Ev("switch", "parse_field_bin", cur.it + 1, v, h.key) >>
         IN  /\ Dispatch("parse_field_bin", kw)
             /\ IF Found(h)
                THEN Go(Stepped(cur, range_result((cur.it + 1) + 1)),
                        [ chart EXCEPT ![cur.enc].bin = [ kind |-> "bool", b |-> h.val,
                                                          obj |-> EmptyBin ] ],
                        evs, {cur.it, cur.it + 1}, Ate(<<cur.it, cur.it + 1>>))
                ELSE Go(Append(stack, Frame("bin", cur.it + 1, cur.enc)), chart,
                        evs, {cur.it, cur.it + 1}, Ate(<<cur.it>>))

(* A BIN handler that accepts a bin_parser loop that parsed nothing. *)
parse_field_bin_return_lenient ==
    /\ LoopDone
    /\ cur.g = "bin"
    /\ Go(Returned(range_result(cur.it)),
          [ chart EXCEPT ![cur.enc].bin = [ kind |-> "obj", b |-> FALSE, obj |-> cur.bin ] ],
          << Ev("return", "parse_field_bin", cur.it, <<>>, <<>>) >>, {}, <<>>)

(* parse_field_bin, lines 372-384: the bin_parser loop returned. *)
parse_field_bin_return ==
    /\ LoopDone
    /\ cur.g = "bin"
    /\ LET ret == Ev("return", "parse_field_bin", cur.it, <<>>, <<>>)
       IN  IF cur.num_parsed_attrs = 0
           THEN Throw("Missing or invalid BIN type", <<ret>>, {}, <<>>)
           ELSE Go(Returned(range_result(cur.it)),
                   [ chart EXCEPT ![cur.enc].bin = [ kind |-> "obj", b |-> FALSE,
                                                     obj |-> cur.bin ] ],
                   <<ret>>, {}, <<>>)

(* ----------------------------- mark_parser ----------------------------- *)
(* mark_parser::parse_init: the token at begin names the mark. *)
mark_parse_init ==
    /\ AtInit("mark")
    /\ \E t \in ReadAt(cur.it) :
         LET h == simple_switch(t, mark_handlers)
             evs == << Ev("init", "parse_init", cur.it, t, <<>>),
                       Ev("switch", "parse_init", cur.it, t, h.key) >>
         IN  IF ~ Found(h)
             THEN Throw("Missing or invalid MARK type", evs, {cur.it}, <<>>)
             ELSE Go([ stack EXCEPT ![Len(stack)] =
                                      [ cur EXCEPT !.it = cur.it + 1, !.ph = "loop" ] ],
                     [ chart EXCEPT !.mark = [ kind |-> h.val, color |-> <<>> ] ],
                     evs, {cur.it}, Ate(<<cur.it>>))

(* parse_color: every handler visit_any invokes casts the mark to its own  *)
(* shape (to_any_visitor, line 226) and stores the lower-cased token.      *)
parse_color ==
    \E kw \in ReadAt(cur.it), v \in ReadAt(cur.it + 1) :
        LET fired == visit_any(chart.mark.kind, color_visitor)
            ok    == \A k \in fired : k = chart.mark.kind
        IN  PointStep("parse_color", kw, v, ok, "bad_any_cast", cur,
                      IF fired = {} THEN chart
                      ELSE [ chart EXCEPT !.mark.color = to_lower(v) ],
                      << [ Ev("visit", "parse_color", cur.it + 1, v, <<>>)
                             EXCEPT !.fired = fired ] >>)

(* --------------------------- xv_sqlite_parser -------------------------- *)
(* xv_sqlite_parser::parse_init: the default config has the grid on. *)
top_parse_init ==
    /\ AtInit("top")
    /\ Go([ stack EXCEPT ![Len(stack)].ph = "loop" ],
          [ chart EXCEPT !.grid = << TRUE >> ],
          << Ev("init", "parse_init", cur.it, <<>>, <<>>) >>, {}, <<>>)

TopNumber(fn, attr) ==
    \E kw \in ReadAt(cur.it), v \in ReadAt(cur.it + 1) :
        LET n == stoi(v)
        IN  PointStep(fn, kw, v, n.ok, "invalid_argument", cur,
                      [ chart EXCEPT ![attr] = << n.val >> ],
                      << Ev("value", fn, cur.it + 1, v, <<>>) >>)

parse_width  == TopNumber("parse_width", "width")
parse_height == TopNumber("parse_height", "height")

parse_grid ==
    \E kw \in ReadAt(cur.it), v \in ReadAt(cur.it + 1) :
        LET h == simple_switch(v, toggle_handlers)
        IN  PointStep("parse_grid", kw, v, Found(h), "Missing or invalid GRID type", cur,
                      IF ~ Found(h) THEN chart ELSE [ chart EXCEPT !.grid = << h.val >> ],
                      << Ev("switch", "parse_grid", cur.it + 1, v, h.key) >>)

(* parse_title copies the token and stores nothing. *)
parse_title ==
    \E kw \in ReadAt(cur.it), v \in ReadAt(cur.it + 1) :
        PointStep("parse_title", kw, v, TRUE, "none", cur, chart,
                  << Ev("value", "parse_title", cur.it + 1, v, <<>>) >>)

(* A range handler that hands (begin, end) to the parse_loop of a nested   *)
(* parser.                                                                 *)
Nested(fn, g, enc, chart2) ==
    /\ AtStep
    /\ \E kw \in ReadAt(cur.it) :
         /\ Dispatch(fn, kw)
         /\ Go(Append(stack, Frame(g, cur.it + 1, enc)), chart2,
               << Ev("step", fn, cur.it, kw, lookup(cur.g, kw).key) >>,
               {cur.it}, Ate(<<cur.it>>))

(* An X_FIELD handler that starts from a fresh encoding, y included. *)
parse_x_field_shared ==
    Nested("parse_x_field", "field", "x", [ chart EXCEPT !.x = NewField, !.y = NoField ])

parse_x_field == Nested("parse_x_field", "field", "x", [ chart EXCEPT !.x = NewField ])
parse_y_field == Nested("parse_y_field", "field", "y", [ chart EXCEPT !.y = NewField ])
parse_mark    == Nested("parse_mark", "mark", "-", chart)

(* parse_x_field / parse_y_field / parse_mark: return parser.parse_loop(). *)
nested_return ==
    /\ LoopDone
    /\ cur.g \in {"field", "mark"}
    /\ Go(Returned(range_result(cur.it)), chart,
          << Ev("return", IF cur.g = "mark" THEN "parse_mark"
                          ELSE IF cur.enc = "x" THEN "parse_x_field" ELSE "parse_y_field",
                cur.it, <<>>, <<>>) >>, {}, <<>>)

(* ------------------------- process_xvega_input ------------------------- *)
(* Line 618: the top-level parse_loop returned last_parsed. *)
top_return ==
    /\ LoopDone
    /\ cur.g = "top"
    /\ pc' = "check"
    /\ last_parsed' = cur.it
    /\ trace' = Append(trace, Ev("return", "process_xvega_input", cur.it, <<>>, <<>>))
    /\ UNCHANGED << tokens, stack, chart, result, reads, consumed, first >>

(* A check that only rejects a cursor past the end. *)
not_all_parsed_gt(last, e) == last > e

(* Line 620. *)
not_all_parsed(last, e) == last # e

(* A message that quotes the input that is left. *)
what_cites_leftover(last) == SubSeq(tokens, last, Len(tokens))

(* Line 622: the tokens the message of the exception carries.  The message *)
(* is a string literal, whatever input is left.                            *)
what_cites(last) == <<>>

(* Lines 620-625: throw on leftover input, else return the chart. *)
process_xvega_input ==
    /\ pc = "check"
    /\ pc' = "done"
    /\ result' = IF not_all_parsed(last_parsed, end)
                 THEN "This is not a valid command for SQLite XVega."
                 ELSE "ok"
    /\ trace' = IF not_all_parsed(last_parsed, end)
                THEN Append(trace, [ Ev("throw", "process_xvega_input", last_parsed, <<>>, <<>>)
                                       EXCEPT !.cites = what_cites(last_parsed) ])
                ELSE trace
    /\ UNCHANGED << tokens, stack, chart, last_parsed, reads, consumed, first >>

(* The position the next dereference of the running code reads. *)
NextRead ==
    IF cur.ph = "init" THEN (IF cur.g \in {"field", "mark"} THEN cur.it ELSE 0)
    ELSE IF cur.ph # "loop" \/ cur.it = end THEN 0
    ELSE IF cur.it > end THEN cur.it
    ELSE IF lookup(cur.g, tokens[cur.it]).fn
              \in {"none", "parse_x_field", "parse_y_field", "parse_mark"} THEN 0
    ELSE cur.it + 1

(* Undefined behaviour: a dereference at or past end() may end the process. *)
ub_crash ==
    /\ Running
    /\ NextRead >= end
    /\ pc' = "done"
    /\ result' = "crash"
    /\ reads' = reads \cup {NextRead}
    /\ UNCHANGED << tokens, stack, chart, last_parsed, trace, consumed, first >>

Next ==
    \/ top_parse_init \/ parse_width \/ parse_height \/ parse_grid \/ parse_title
    \/ parse_x_field \/ parse_y_field \/ parse_mark \/ nested_return
    \/ field_parse_init \/ parse_field_type \/ parse_field_aggregate
    \/ parse_field_time_unit \/ parse_field_bin \/ parse_field_bin_return
    \/ mark_parse_init \/ parse_color
    \/ parse_init \/ parse_bin_anchor \/ parse_bin_base \/ parse_bin_binned
    \/ parse_bin_maxbins \/ parse_bin_minstep \/ parse_bin_nice \/ parse_bin_step
    \/ parse_step_no_match \/ parse_step_arguments_missing
    \/ top_return \/ process_xvega_input \/ ub_crash

Spec == Init /\ [][Next]_vars

(* process_xvega_input called a second time on the same tokenized_input:   *)
(* a fresh chart and a fresh parser, the outcome of the first call kept.   *)
rerun ==
    /\ pc = "done"
    /\ first = NoRun
    /\ first' = [ result |-> result, chart |-> chart, last_parsed |-> last_parsed ]
    /\ stack' = << Frame("top", 1, "-") >>
    /\ chart' = NewChart
    /\ pc' = "parse"
    /\ result' = "none"
    /\ last_parsed' = 0
    /\ trace' = <<>>
    /\ reads' = {}
    /\ consumed' = <<>>
    /\ UNCHANGED tokens
TwiceInputs ==
    TopInputs \cup MarkInputs \cup { <<t_X_FIELD, t_price>> \o a : a \in FieldClauses }
InitTwice ==
    /\ Init
    /\ tokens \in TwiceInputs
NextTwice == Next \/ rerun
SpecTwice == InitTwice /\ [][NextTwice]_vars

(* One call on inputs of every grammar and nesting.  The code is           *)
(* sequential and runs to completion: some step is always taken while one  *)
(* is possible.                                                            *)
FairInputs ==
    { a \o b : a \in TopClauses, b \in { <<>>, <<t_FOO>>, <<t_GRID, t_false>> } }
      \cup { <<t_X_FIELD, t_price>> \o a \o b :
               a \in { c \in FieldClauses : Len(c) <= 3 },
               b \in { <<>>, <<t_TYPE, t_ORDINAL>> } }
InitFair ==
    /\ Init
    /\ tokens \in FairInputs
SpecFair == InitFair /\ [][Next]_vars /\ WF_vars(Next)

(* mark_parser::parse_step driven directly, without parse_loop's init, on  *)
(* a chart whose mark holds any shape: a registered one, an empty any      *)
(* ("none") or a shape no colour handler is registered for.                *)
VisitInputs ==
    { <<k1, c1>> \o tail :
        k1 \in {t_COLOR, t_color}, c1 \in {t_RED, t_Red},
        tail \in { <<>>, <<t_COLOR, t_red>>, <<t_FOO>>, <<t_COLOR, t_RED, t_WIDTH, t_400>> } }
InitVisit ==
    /\ tokens \in VisitInputs
    /\ stack = << [ Frame("mark", 1, "-") EXCEPT !.ph = "loop" ] >>
    /\ \E a \in color_visitor \cup {"none", "mark_geoshape"} :
         chart = [ NewChart EXCEPT !.mark.kind = a ]
    /\ pc = "parse"
    /\ result = "none"
    /\ last_parsed = 0
    /\ trace = <<>>
    /\ reads = {}
    /\ consumed = <<>>
    /\ first = NoRun
NextVisit == parse_color \/ parse_step_no_match
SpecVisit == InitVisit /\ [][NextVisit]_vars

(* ------------------------- vocabulary of the claims -------------------- *)
(* Two strings that differ at most in the case of their letters, stated    *)
(* letter by letter and without to_upper / to_lower.                       *)
SameIgnoringCase(a, b) ==
    /\ Len(a) = Len(b)
    /\ \A i \in 1..Len(a) :
         \/ a[i] = b[i]
         \/ \E j \in 1..26 : {a[i], b[i]} = {Lower[j], Upper[j]}
HasUpper(s) == \E i \in 1..Len(s) : \E j \in 1..26 : s[i] = Upper[j]
(* s is c with every upper-case letter replaced by its lower-case one. *)
IsLowerOf(s, c) == SameIgnoringCase(s, c) /\ ~ HasUpper(s)

(* The spelling of the stored field kinds and mark shapes. *)
Spelled ==
    [ quantitative |-> <<"q","u","a","n","t","i","t","a","t","i","v","e">>,
      nominal |-> <<"n","o","m","i","n","a","l">>,
      ordinal |-> <<"o","r","d","i","n","a","l">>,
      temporal |-> <<"t","e","m","p","o","r","a","l">>,
      mark_arc |-> <<"a","r","c">>,
      mark_area |-> <<"a","r","e","a">>,
      mark_bar |-> <<"b","a","r">>,
      mark_circle |-> <<"c","i","r","c","l","e">>,
      mark_line |-> <<"l","i","n","e">>,
      mark_point |-> <<"p","o","i","n","t">>,
      mark_rect |-> <<"r","e","c","t">>,
      mark_rule |-> <<"r","u","l","e">>,
      mark_square |-> <<"s","q","u","a","r","e">>,
      mark_tick |-> <<"t","i","c","k">>,
      mark_trail |-> <<"t","r","a","i","l">> ]
(* The stored value v is the one the keyword token k names. *)
Names(k, v) == v \in DOMAIN Spelled /\ SameIgnoringCase(Spelled[v], k)

(* The index of the last event of kind ev by fn in the trace, 0 if none. *)
LastEvent(ev, fn) ==
    LET S == { i \in 1..Len(trace) : trace[i].ev = ev /\ trace[i].fn = fn }
    IN  IF S = {} THEN 0 ELSE CHOOSE i \in S : \A j \in S : j <= i
Done == pc = "done"
NotValid == "This is not a valid command for SQLite XVega."

(* The number of tokens strictly after the keyword of a parse_step event. *)
TokensAfter(e) == Len(tokens) - e.pos
MinArgs(e) == find(mapping_table(e.g), e.key).min

(* C1: whenever parse_step matches a keyword with fewer tokens strictly    *)
(* after it than its minimum argument count, the step fails with           *)
(* "Arguments missing." and the handler is not invoked: every handler      *)
(* invocation has at least minArgs tokens after the keyword.               *)
C1_ArityCheckedBeforeHandler ==
    \A i \in 1..Len(trace) :
        LET e == trace[i]
        IN  /\ e.ev = "step" => TokensAfter(e) >= MinArgs(e)
            /\ (e.ev \in {"step", "args"} /\ TokensAfter(e) < MinArgs(e))
                   => (e.ev = "args" /\ Done /\ result = "Arguments missing.")

(* C2: process_xvega_input returns a model exactly when the top-level      *)
(* parse_loop returned a cursor equal to end; a loop that halts with       *)
(* unconsumed tokens makes it throw.                                       *)
C2_SuccessIffAllParsed ==
    /\ result = "ok" => (Done /\ last_parsed = end)
    /\ (Done /\ last_parsed = end) => result = "ok"
    /\ (Done /\ last_parsed # 0 /\ last_parsed < end) => result = NotValid
C2_Witness ==
    /\ Done /\ result = NotValid
    /\ last_parsed # 0 /\ last_parsed < end
    /\ chart.width = << 400 >>

(* C3: when BIN is the last token the parse fails with "Missing or invalid *)
(* BIN type" and no position at or beyond the end is read.                 *)
BinIsLast ==
    \E i \in 1..Len(trace) :
        trace[i].ev = "step" /\ trace[i].fn = "parse_field_bin" /\ trace[i].pos = Len(tokens)
C3_BinLastFailsWithoutOverread ==
    (Done /\ BinIsLast) =>
        (result = "Missing or invalid BIN type" /\ \A p \in reads : p < end)

(* C4: every input X_FIELD n1 TYPE k1 Y_FIELD n2 TYPE k2 MARK m COLOR c    *)
(* GRID g parses to the end and yields x = n1/k1, y = n2/k2, mark m with   *)
(* the colour c names (RED gives red, as in Scenario A), grid g.           *)
IsScenarioA ==
    /\ Len(tokens) = 14
    /\ tokens = ScenarioA(tokens[2], tokens[4], tokens[6], tokens[8],
                          tokens[10], tokens[12], tokens[14])
    /\ \E v \in DOMAIN Spelled : Names(tokens[4], v) /\ v \in { h.val : h \in type_handlers }
    /\ \E v \in DOMAIN Spelled : Names(tokens[8], v) /\ v \in { h.val : h \in type_handlers }
    /\ \E v \in DOMAIN Spelled : Names(tokens[10], v) /\ v \in color_visitor
    /\ \E b \in {t_TRUE, t_FALSE} : SameIgnoringCase(tokens[14], b)
C4_ScenarioA ==
    (IsScenarioA /\ pc \in {"check", "done"}) =>
        /\ last_parsed = end
        /\ Done => result = "ok"
        /\ chart.x.field = tokens[2] /\ Names(tokens[4], chart.x.type)
        /\ chart.y.field = tokens[6] /\ Names(tokens[8], chart.y.type)
        /\ Names(tokens[10], chart.mark.kind)
        /\ IsLowerOf(chart.mark.color, tokens[12])
        /\ chart.grid = << SameIgnoringCase(tokens[14], t_TRUE) >>
C4_Witness ==
    /\ Done /\ result = "ok"
    /\ tokens = ScenarioA(t_price, <<"Q","U","A","N","T","I","T","A","T","I","V","E">>,
                          t_qty, t_ORDINAL, t_BAR, t_RED, t_TRUE)
    /\ chart.mark = [ kind |-> "mark_bar", color |-> t_red ]
    /\ chart.y.type = "ordinal"

(* C5: keyword matching is case-insensitive in parse_step's table lookup   *)
(* and in simple_switch: a token selects the entry it equals up to letter  *)
(* case and no entry otherwise (bar, Bar, BAR select the bar mark, barr    *)
(* selects none).                                                          *)
SwitchKeys(fn) ==
    CASE fn = "parse_field_type" -> TypeKeys
      [] fn = "parse_field_aggregate" -> { h.key : h \in aggregate_handlers }
      [] fn = "parse_field_time_unit" -> { h.key : h \in time_unit_handlers }
      [] fn = "parse_init" -> MarkKeys
      [] OTHER -> { t_TRUE, t_FALSE }
KeysOf(e) ==
    IF e.ev = "switch" THEN SwitchKeys(e.fn) ELSE { c.key : c \in mapping_table(e.g) }
C5_CaseInsensitive ==
    /\ \A i \in 1..Len(trace) :
         LET e == trace[i]
         IN  e.ev \in {"step", "args", "nomatch", "switch"} =>
                 /\ \A k \in KeysOf(e) : SameIgnoringCase(e.tok, k) <=> e.key = k
                 /\ e.key \in KeysOf(e) \cup { <<>> }
    /\ (Done /\ tokens \in { <<t_MARK, t_bar>>, <<t_MARK, t_Bar>>, <<t_MARK, t_BAR>> })
           => (result = "ok" /\ chart.mark.kind = "mark_bar")
    /\ (Done /\ tokens = <<t_MARK, t_barr>>)
           => (result = "Missing or invalid MARK type" /\ chart.mark.kind = "none")
C5_Witness ==
    /\ Done /\ result = "ok"
    /\ \E i \in 1..Len(trace) :
         trace[i].ev = "step" /\ trace[i].tok = t_mark /\ trace[i].key = t_MARK
    /\ \E i \in 1..Len(trace) :
         trace[i].ev = "switch" /\ trace[i].tok = t_Bar /\ trace[i].key = t_BAR
    /\ chart.mark.kind = "mark_bar"

(* C6 as stated: after a successful parse the stored field identifier is   *)
(* the token after X_FIELD / Y_FIELD and the stored colour is the token    *)
(* after COLOR, both character for character.                              *)
FieldVerbatim(fn, enc) ==
    LastEvent("step", fn) # 0 =>
        chart[enc].field = tokens[trace[LastEvent("step", fn)].pos + 1]
ColorApplies == LastEvent("visit", "parse_color") > LastEvent("step", "parse_mark")
ColorToken == tokens[trace[LastEvent("visit", "parse_color")].pos]
C6_AllVerbatim ==
    result = "ok" =>
        /\ FieldVerbatim("parse_x_field", "x")
        /\ FieldVerbatim("parse_y_field", "y")
        /\ ColorApplies => chart.mark.color = ColorToken
(* C6 amended: the field identifier is stored character for character; the *)
(* colour is stored with its letters folded to lower case.                 *)
C6_FieldVerbatimColorLowered ==
    result = "ok" =>
        /\ FieldVerbatim("parse_x_field", "x")
        /\ FieldVerbatim("parse_y_field", "y")
        /\ ColorApplies => IsLowerOf(chart.mark.color, ColorToken)
C6_Witness ==
    /\ result = "ok"
    /\ tokens = <<t_X_FIELD, t_Qty, t_MARK, t_Bar, t_COLOR, t_Red>>
    /\ chart.x.field = t_Qty
    /\ chart.mark.color = t_red

(* C7: after a nested grammar returns, the parent resumes exactly at the   *)
(* returned cursor: the tokens between the keyword and that cursor were    *)
(* consumed by the nested grammar, every position before a cursor was      *)
(* consumed exactly once, and the next token examined is the one at the    *)
(* returned cursor.                                                        *)
InnerGrammars(fn) ==
    CASE fn = "parse_field_bin" -> {"bin"}
      [] fn = "parse_mark" -> {"mark"}
      [] OTHER -> {"field", "bin"}
CallOf(j) ==
    LET S == { i \in 1..(j - 1) : trace[i].ev = "step" /\ trace[i].fn = trace[j].fn }
    IN  CHOOSE i \in S : \A k \in S : k <= i
C7_ParentResumesAtReturnedCursor ==
    /\ \A i \in 1..Len(consumed) : consumed[i].pos = i
    /\ \A j \in 1..Len(trace) :
         (trace[j].ev = "return" /\ trace[j].fn # "process_xvega_input") =>
             /\ consumed[trace[CallOf(j)].pos].g = trace[CallOf(j)].g
             /\ \A p \in (trace[CallOf(j)].pos + 1)..(trace[j].pos - 1) :
                    p <= Len(consumed) /\ consumed[p].g \in InnerGrammars(trace[j].fn)
             /\ j < Len(trace) => trace[j + 1].pos = trace[j].pos
             /\ (j = Len(trace) /\ Running) =>
                    (cur.g = trace[CallOf(j)].g /\ cur.it = trace[j].pos
                       /\ Len(consumed) = cur.it - 1)
C7_Witness ==
    /\ Done /\ result = "ok"
    /\ tokens = <<t_X_FIELD, t_price, t_BIN, t_MAXBINS, t_7, t_TYPE, t_ORDINAL, t_GRID, t_FALSE>>
    /\ chart.x.bin.obj.maxbins = << 7 >>
    /\ chart.x.type = "ordinal"
    /\ chart.grid = << FALSE >>

(* C8: a value token that matches none of the keywords of a required       *)
(* enumeration (TYPE, AGGREGATE, TIME_UNIT, GRID, the mark after MARK)     *)
(* aborts the parse at once with the error naming the attribute, and the   *)
(* chart is left as it was.                                                *)
RequiredError(e) ==
    CASE e.fn = "parse_field_type" -> "Missing or invalid TYPE type"
      [] e.fn = "parse_field_aggregate" -> "Missing or invalid AGGREGATE type"
      [] e.fn = "parse_field_time_unit" -> "Missing or invalid TIME_UNIT type"
      [] e.fn = "parse_grid" -> "Missing or invalid GRID type"
      [] e.fn = "parse_init" -> "Missing or invalid MARK type"
      [] OTHER -> "none"
C8_Step ==
    LET e == trace'[Len(trace')]
    IN  (trace' # trace /\ e.ev = "switch" /\ e.key = <<>> /\ RequiredError(e) # "none")
            => (pc' = "done" /\ result' = RequiredError(e) /\ chart' = chart)
C8_RequiredEnumMissAborts == [][C8_Step]_vars
C8_Witness ==
    /\ Done /\ result = "Missing or invalid TYPE type"
    /\ tokens = <<t_X_FIELD, t_price, t_TYPE, t_ORDINAL, t_TYPE, t_FOO>>
    /\ chart.x.type = "ordinal"

(* C9: visit_any on a value whose shape has no registered handler invokes  *)
(* no handler, changes nothing and raises no error; the step moves on to   *)
(* the next token as it does after an applied attribute.                   *)
C9_UnregisteredShapeIsSkipped ==
    chart.mark.kind \notin color_visitor =>
        /\ chart = [ NewChart EXCEPT !.mark.kind = chart.mark.kind ]
        /\ pc = "parse" /\ result = "none"
        /\ \A i \in 1..Len(trace) :
             trace[i].ev = "visit" =>
                 /\ trace[i].fired = {}
                 /\ i > 1 /\ trace[i - 1].ev = "step" /\ trace[i - 1].pos = trace[i].pos - 1
                 /\ i < Len(trace) => trace[i + 1].pos = trace[i].pos + 1
                 /\ i = Len(trace) => cur.it = trace[i].pos + 1
C9_Witness ==
    /\ chart.mark.kind = "none"
    /\ tokens = <<t_COLOR, t_RED, t_COLOR, t_red>>
    /\ Len(trace) = 4
    /\ trace[4].ev = "visit" /\ trace[4].fired = {}
    /\ cur.it = 5

(* C10: COLOR on a chart holding mark kind m invokes exactly the handler   *)
(* registered for the shape of m and no other; MARK m COLOR c succeeds for *)
(* every accepted mark kind m and sets the colour of that mark.            *)
C10_OnlyHeldShapeHandlerFires ==
    /\ (Running /\ Len(trace) > 0 /\ trace[Len(trace)].ev = "visit") =>
           /\ trace[Len(trace)].fired = { chart.mark.kind }
           /\ IsLowerOf(chart.mark.color, trace[Len(trace)].tok)
    /\ \A i \in 1..Len(trace) :
           trace[i].ev = "visit" => Cardinality(trace[i].fired) = 1
    /\ ( /\ Done /\ Len(tokens) = 4
         /\ tokens[1] = t_MARK /\ tokens[3] = t_COLOR
         /\ \E v \in color_visitor : Names(tokens[2], v) )
           => /\ result = "ok"
              /\ Names(tokens[2], chart.mark.kind)
              /\ IsLowerOf(chart.mark.color, tokens[4])
C10_Witness ==
    /\ Done /\ result = "ok"
    /\ tokens = <<t_MARK, t_BAR, t_COLOR, t_Red>>
    /\ chart.mark = [ kind |-> "mark_bar", color |-> t_red ]
    /\ \E i \in 1..Len(trace) : trace[i].ev = "visit" /\ trace[i].fired = {"mark_bar"}

(* C11: parsing is repeatable: a second run of the whole operation on the  *)
(* same tokens, with a fresh chart, ends as the first one did (the same    *)
(* error, or success with an equal chart and the same final cursor).       *)
C11_SecondRunAgrees ==
    (Done /\ first # NoRun) =>
        /\ result = first.result
        /\ chart = first.chart
        /\ last_parsed = first.last_parsed
(* C11, the part that holds: two runs in which no position at or past the  *)
(* end was read agree.                                                     *)
C11_SecondRunAgreesInBounds ==
    (Done /\ first # NoRun /\ \A p \in reads : p < end) =>
        /\ result = first.result
        /\ chart = first.chart
        /\ last_parsed = first.last_parsed

(* C12 as stated: leftover tokens raise exactly one error, and that error  *)
(* identifies the remaining input (WIDTH 400 FOO: it cites FOO).           *)
Throws == { i \in 1..Len(trace) : trace[i].ev = "throw" }
Leftover == SubSeq(tokens, last_parsed, Len(tokens))
C12_OneErrorCitingLeftover ==
    (Done /\ last_parsed # 0 /\ last_parsed < end) =>
        /\ result = NotValid
        /\ Cardinality(Throws) = 1
        /\ \A i \in Throws : trace[i].cites = Leftover
(* C12 amended: leftover tokens raise exactly one error for the whole      *)
(* parse, with the fixed message "This is not a valid command for SQLite   *)
(* XVega."; the error carries no part of the remaining input.              *)
C12_OneFixedError ==
    /\ (Done /\ last_parsed # 0 /\ last_parsed < end) =>
           /\ result = NotValid
           /\ Cardinality(Throws) = 1
           /\ \A i \in Throws : trace[i].cites = <<>> /\ trace[i].pos = last_parsed
    /\ Cardinality(Throws) <= 1
C12_Witness ==
    /\ Done /\ result = NotValid
    /\ tokens = <<t_WIDTH, t_400, t_FOO>>
    /\ last_parsed = 3
    /\ Cardinality(Throws) = 1

(* C13: in the aggregate, time-unit and mark-kind keyword sets no two      *)
(* distinct keywords store the same value; the value a clause stored names *)
(* the one keyword that was given.                                         *)
Injective(handlers) ==
    \A h1 \in handlers : \A h2 \in handlers : h1.val = h2.val => h1.key = h2.key
KeysStoring(handlers, v) == { h.key : h \in { x \in handlers : x.val = v } }
StoredBy(e) ==
    CASE e.fn = "parse_field_aggregate" -> KeysStoring(aggregate_handlers, chart[cur.enc].aggregate)
      [] e.fn = "parse_field_time_unit" -> KeysStoring(time_unit_handlers, chart[cur.enc].timeUnit)
      [] e.fn = "parse_init" -> KeysStoring(mark_handlers, chart.mark.kind)
      [] OTHER -> { e.key }
C13_KeywordToValueInjective ==
    /\ Injective(aggregate_handlers)
    /\ Injective(time_unit_handlers)
    /\ Injective(mark_handlers)
    /\ (Running /\ Len(trace) > 0 /\ trace[Len(trace)].ev = "switch"
                /\ trace[Len(trace)].key # <<>>)
           => StoredBy(trace[Len(trace)]) = { trace[Len(trace)].key }
C13_Witness ==
    /\ Done /\ result = "ok"
    /\ tokens = <<t_X_FIELD, t_price, t_AGGREGATE, t_SUM>>
    /\ chart.x.aggregate = "sum"

(* C14: the cursor never moves backward: no step lowers the cursor of a    *)
(* running parse_loop, a nested parse_loop begins at or after the cursor   *)
(* of the handler that starts it, the cursor it returns is the one its     *)
(* caller adopts, and the cursor the top-level parse_loop returns is at or *)
(* after the begin it was given.                                           *)
C14_Step ==
    Running =>
        /\ \A i \in 1..Len(stack) : i <= Len(stack') => stack'[i].it >= stack[i].it
        /\ Len(stack') > Len(stack) => stack'[Len(stack')].it >= cur.it
        /\ Len(stack') < Len(stack) => stack'[Len(stack')].it >= cur.it
        /\ pc' = "check" => (last_parsed' >= 1 /\ last_parsed' >= cur.it)
C14_CursorNeverMovesBack == [][C14_Step]_vars
C14_Witness ==
    /\ pc = "check"
    /\ tokens = << t_Y_FIELD, t_qty, t_TYPE, t_ORDINAL >>
    /\ last_parsed = 5
    /\ Len(consumed) = 4

(* The last event of kind ev by fn that applied a value: a number that     *)
(* converted, a switch that matched.  0 if none.                           *)
LastApplied(ev, fn) ==
    LET S == { i \in 1..Len(trace) :
                 /\ trace[i].ev = ev /\ trace[i].fn = fn
                 /\ IF ev = "value" THEN stoi(trace[i].tok).ok ELSE trace[i].key # <<>> }
    IN  IF S = {} THEN 0 ELSE CHOOSE i \in S : \A j \in S : j <= i
Failed == Done /\ result \notin {"ok", "crash"}

(* C15: a failure rolls nothing back: the step that raises the error       *)
(* leaves the chart as it was, and in the failed state the width, height,  *)
(* grid, mark kind and field name last applied are the ones the chart      *)
(* holds.                                                                  *)
C15_Applied ==
    Failed =>
        /\ LET i == LastApplied("value", "parse_width")
           IN  i # 0 => chart.width = << stoi(trace[i].tok).val >>
        /\ LET i == LastApplied("value", "parse_height")
           IN  i # 0 => chart.height = << stoi(trace[i].tok).val >>
        /\ LET i == LastApplied("switch", "parse_grid")
           IN  i # 0 => chart.grid = << SameIgnoringCase(trace[i].tok, t_TRUE) >>
        /\ LET i == LastApplied("switch", "parse_init")
           IN  i # 0 => Names(trace[i].tok, chart.mark.kind)
        /\ \A i \in 1..Len(trace) :
             (/\ trace[i].ev = "init" /\ trace[i].g = "field"
              /\ \A j \in (i + 1)..Len(trace) : trace[j].ev # "init" \/ trace[j].g # "field")
                 => trace[i].tok \in { chart.x.field, chart.y.field }
C15_Step == (Running /\ pc' = "done" /\ result' # "crash") => chart' = chart
C15_FailStopKeepsApplied == []C15_Applied /\ [][C15_Step]_vars
C15_Witness ==
    /\ Done /\ result = "Missing or invalid GRID type"
    /\ tokens = << t_WIDTH, t_400, t_GRID, t_FOO >>
    /\ chart.width = << 400 >>

(* C16: every parse_loop ends, so the whole run does; a parse_step of a    *)
(* loop either returns the cursor it was given, which ends the loop at     *)
(* that cursor, or moves the cursor strictly forward; at end no step is    *)
(* taken and the loop returns end.                                         *)
C16_Step ==
    /\ (AtStep /\ pc' = "parse" /\ Len(stack') = Len(stack)) =>
           LET f == stack'[Len(stack')]
           IN  \/ f.ph = "ret" /\ f.it = cur.it
               \/ f.ph = "loop" /\ f.it > cur.it
    /\ (LoopDone /\ pc' = "parse") =>
           /\ Len(stack') = Len(stack) - 1
           /\ stack'[Len(stack')].it = cur.it
           /\ stack'[Len(stack')].it > parent.it
    /\ (LoopDone /\ pc' = "check") => last_parsed' = cur.it
C16_LoopTerminates == <>Done /\ [][C16_Step]_vars
C16_Witness ==
    /\ Done /\ result = "ok"
    /\ tokens = << t_MARK, t_Bar, t_COLOR, t_Red, t_GRID, t_false >>
    /\ Len(consumed) = 6

(* C17: a token that is no key of the command table of the running parser, *)
(* whatever its case, makes parse_step return its cursor: the loop ends at *)
(* that cursor, no handler runs, nothing is thrown, nothing is consumed    *)
(* and the chart is as before.                                             *)
NoKey(g, tok) == \A c \in mapping_table(g) : ~ SameIgnoringCase(c.key, tok)
C17_Step ==
    (AtStep /\ cur.it < end /\ NoKey(cur.g, tokens[cur.it])) =>
        /\ pc' = pc /\ result' = result
        /\ chart' = chart
        /\ consumed' = consumed
        /\ stack' = [ stack EXCEPT ![Len(stack)].ph = "ret" ]
        /\ Len(trace') = Len(trace) + 1
        /\ trace'[Len(trace')].ev = "nomatch"
C17_NoMatchReturnsCursor == [][C17_Step]_vars
C17_Witness ==
    /\ Running /\ cur.g = "top" /\ cur.ph = "ret" /\ cur.it = 3
    /\ tokens = << t_WIDTH, t_400, t_FOO >>
    /\ trace[Len(trace)].ev = "nomatch"
    /\ chart.width = << 400 >>

(* The handlers a simple_switch of fn chooses from. *)
HandlersOf(fn) ==
    CASE fn \in {"parse_grid", "parse_bin_binned", "parse_bin_nice", "parse_field_bin"}
             -> toggle_handlers
      [] fn = "parse_field_type" -> type_handlers
      [] fn = "parse_field_aggregate" -> aggregate_handlers
      [] fn = "parse_field_time_unit" -> time_unit_handlers
      [] fn = "parse_init" -> mark_handlers
(* The chart after the one effect of handler h of the switch of fn. *)
EffectOn(fn, h) ==
    CASE fn = "parse_grid" -> [ chart EXCEPT !.grid = << h.val >> ]
      [] fn = "parse_field_type" -> [ chart EXCEPT ![cur.enc].type = h.val ]
      [] fn = "parse_field_aggregate" -> [ chart EXCEPT ![cur.enc].aggregate = h.val ]
      [] fn = "parse_field_time_unit" -> [ chart EXCEPT ![cur.enc].timeUnit = h.val ]
      [] fn = "parse_field_bin" ->
             [ chart EXCEPT ![cur.enc].bin = [ kind |-> "bool", b |-> h.val, obj |-> EmptyBin ] ]
      [] fn = "parse_init" -> [ chart EXCEPT !.mark = [ kind |-> h.val, color |-> <<>> ] ]
      [] OTHER -> chart
BinEffectOn(fn, h) ==
    CASE fn = "parse_bin_binned" -> [ cur.bin EXCEPT !.binned = << h.val >> ]
      [] fn = "parse_bin_nice" -> [ cur.bin EXCEPT !.nice = << h.val >> ]
      [] OTHER -> cur.bin

(* C18: a simple_switch reports a match exactly when its token is, up to   *)
(* case, one of the keys it was given; the step then applies the effect of *)
(* that one key and no other, and on a miss the chart and the binning      *)
(* configuration being built are as before.                                *)
C18_Step ==
    \A i \in (Len(trace) + 1)..Len(trace') :
        trace'[i].ev = "switch" =>
            LET e == trace'[i]
                M == { h \in HandlersOf(e.fn) : SameIgnoringCase(h.key, e.tok) }
                f == stack'[Len(stack)]
            IN  /\ (e.key # <<>>) <=> (M # {})
                /\ M # {} =>
                     /\ Cardinality(M) = 1
                     /\ \A h \in M : /\ e.key = h.key
                                     /\ chart' = EffectOn(e.fn, h)
                                     /\ f.bin = BinEffectOn(e.fn, h)
                /\ M = {} => /\ chart' = chart
                             /\ f.bin = cur.bin
                             /\ f.num_parsed_attrs = cur.num_parsed_attrs
C18_SwitchMatchesOneEffect == [][C18_Step]_vars
C18_Witness ==
    /\ Done /\ result = "ok"
    /\ tokens = << t_X_FIELD, t_price, t_BIN, t_BINNED, t_FOO, t_MAXBINS, t_7 >>
    /\ chart.x.bin.kind = "obj"
    /\ chart.x.bin.obj.binned = <<>>
    /\ chart.x.bin.obj.maxbins = << 7 >>

BinError == "Missing or invalid BIN type"
(* The events of the bin_parser loop that ran last. *)
BinRun ==
    LET S == { i \in 1..Len(trace) : trace[i].ev = "init" /\ trace[i].g = "bin" }
    IN  IF S = {} THEN {}
        ELSE { i \in 1..Len(trace) : trace[i].g = "bin" /\ \A j \in S : j <= i }
BinApplied ==
    { i \in BinRun : \/ trace[i].ev = "value" /\ stoi(trace[i].tok).ok
                     \/ trace[i].ev = "switch" /\ trace[i].key # <<>> }

(* C19 as stated: a run that ended, read nothing out of bounds and whose   *)
(* bin_parser loop applied no attribute ended with the BIN error.          *)
C19_ZeroAppliedIsBinError ==
    (Done /\ BinRun # {} /\ BinApplied = {} /\ \A p \in reads : p < end)
        => result = BinError

(* C19: BIN followed by TRUE or FALSE sets the bin to that boolean and     *)
(* moves past exactly that one token; before any other token a bin_parser  *)
(* loop starts on it with the chart untouched.  When that loop returns the *)
(* handler throws the BIN error exactly if the loop applied no attribute,  *)
(* leaving the bin as it was, and otherwise stores the configuration the   *)
(* loop built; an exception of the loop itself is the error of the run.    *)
C19_Step ==
    /\ (AtStep /\ cur.g = "field" /\ cur.it + 1 < end
          /\ SameIgnoringCase(tokens[cur.it], t_BIN)) =>
           LET v == tokens[cur.it + 1]
               B == { b \in {TRUE, FALSE} :
                        SameIgnoringCase(v, IF b THEN t_TRUE ELSE t_FALSE) }
           IN  IF B # {}
               THEN /\ \A b \in B : chart' = [ chart EXCEPT ![cur.enc].bin =
                                       [ kind |-> "bool", b |-> b, obj |-> EmptyBin ] ]
                    /\ stack' = [ stack EXCEPT ![Len(stack)].it = cur.it + 2 ]
                    /\ consumed' = consumed \o Ate(<< cur.it, cur.it + 1 >>)
                    /\ pc' = "parse"
               ELSE /\ chart' = chart
                    /\ stack' = Append(stack, Frame("bin", cur.it + 1, cur.enc))
                    /\ pc' = "parse"
    /\ (LoopDone /\ cur.g = "bin") =>
           IF cur.num_parsed_attrs = 0
           THEN pc' = "done" /\ result' = BinError /\ chart' = chart
           ELSE /\ pc' = "parse"
                /\ chart' = [ chart EXCEPT ![cur.enc].bin =
                                [ kind |-> "obj", b |-> FALSE, obj |-> cur.bin ] ]
    /\ (result' = BinError /\ result # BinError) =>
           (LoopDone /\ cur.g = "bin" /\ cur.num_parsed_attrs = 0)
C19_Counted ==
    (Running /\ cur.g = "bin" /\ cur.ph # "init") =>
        cur.num_parsed_attrs = Cardinality(BinApplied)
C19_BinToggleOrNestedRun == []C19_Counted /\ [][C19_Step]_vars
C19_Witness ==
    /\ Done /\ result = BinError
    /\ tokens = << t_X_FIELD, t_price, t_BIN, t_BINNED, t_FOO >>
    /\ chart.x.bin = NoBin
    /\ \A p \in reads : p < end

(* The matched TYPE switches since the field_parser loop that runs began. *)
TypeSet ==
    LET S == { i \in 1..Len(trace) : trace[i].ev = "init" /\ trace[i].g = "field" }
    IN  { i \in 1..Len(trace) :
            /\ trace[i].ev = "switch" /\ trace[i].fn = "parse_field_type"
            /\ trace[i].key # <<>>
            /\ \A j \in S : j <= i }

(* C20: the init step of field_parser takes the token after X_FIELD /      *)
(* Y_FIELD as the field name, keyword or not, consumes that one token and  *)
(* sets the kind to quantitative; while the clause is parsed the kind is   *)
(* quantitative until a TYPE of the clause matched, then the kind the last *)
(* matched TYPE names.                                                     *)
C20_Step ==
    (AtInit("field") /\ cur.it < end) =>
        /\ pc' = "parse"
        /\ chart' = [ chart EXCEPT ![cur.enc].field = tokens[cur.it],
                                   ![cur.enc].type = "quantitative" ]
        /\ stack' = [ stack EXCEPT ![Len(stack)] =
                                     [ cur EXCEPT !.it = cur.it + 1, !.ph = "loop" ] ]
        /\ consumed' = Append(consumed, [ pos |-> cur.it, g |-> "field" ])
C20_Kind ==
    (Running /\ cur.g = "field" /\ cur.ph # "init") =>
        IF TypeSet = {} THEN chart[cur.enc].type = "quantitative"
        ELSE \A i \in TypeSet :
                 (\A j \in TypeSet : j <= i) => Names(trace[i].tok, chart[cur.enc].type)
C20_FieldInitTakesNameDefaultsKind == []C20_Kind /\ [][C20_Step]_vars
C20_Witness ==
    /\ Done /\ result = "ok"
    /\ tokens = << t_X_FIELD, t_TYPE >>
    /\ chart.x.field = t_TYPE
    /\ chart.x.type = "quantitative"

(* The part of the chart the nested parser that runs is bound to. *)
Owned(stk) == IF stk[2].g = "mark" THEN "mark" ELSE stk[2].enc
ChartParts == { "width", "height", "x", "y", "mark", "grid" }

(* C21: from the step of X_FIELD, Y_FIELD or MARK that starts a nested     *)
(* parser until that parser has returned, every step (those of a           *)
(* bin_parser below a field_parser included) changes at most the part the  *)
(* nested parser is bound to: x, y or the mark.                            *)
C21_Step ==
    /\ (Running /\ Len(stack) >= 2) =>
           \A k \in ChartParts \ { Owned(stack) } : chart'[k] = chart[k]
    /\ (Running /\ Len(stack) = 1 /\ Len(stack') = 2) =>
           \A k \in ChartParts \ { Owned(stack') } : chart'[k] = chart[k]
C21_NestedChangesOnlyItsPart == [][C21_Step]_vars
C21_Witness ==
    /\ Done /\ result = "ok"
    /\ tokens = << t_Y_FIELD, t_qty, t_TYPE, t_ORDINAL, t_X_FIELD, t_Qty >>
    /\ chart.y.field = t_qty /\ chart.y.type = "ordinal"
    /\ chart.x.field = t_Qty

(* C22: no cursor is ever beyond end and no token at or beyond end is ever *)
(* read.                                                                   *)
C22_InBounds ==
    /\ \A i \in 1..Len(stack) : stack[i].it <= end
    /\ last_parsed <= end
    /\ \A p \in reads : p < end

(* The BINNED / NICE switches of the bin_parser loop that ran last whose   *)
(* value was neither TRUE nor FALSE.                                       *)
BinMissed ==
    { i \in BinRun : /\ trace[i].ev = "switch"
                     /\ trace[i].fn \in {"parse_bin_binned", "parse_bin_nice"}
                     /\ trace[i].key = <<>> }
IsToggle(tok) == SameIgnoringCase(tok, t_TRUE) \/ SameIgnoringCase(tok, t_FALSE)

(* C23 as stated: a run that ended, read nothing out of bounds and whose   *)
(* BIN clause held an ignored BINNED / NICE pair ended with the BIN error  *)
(* if the clause applied no attribute, and without it otherwise.           *)
C23_IgnoredPairBinErrorIffNoneApplied ==
    (Done /\ BinMissed # {} /\ \A p \in reads : p < end)
        => ((BinApplied = {}) <=> (result = BinError))

(* C23: BINNED or NICE before a token that is neither TRUE nor FALSE       *)
(* throws nothing: the step moves past the keyword and the token and       *)
(* leaves the configuration, the counter and the chart as they were.  When *)
(* a bin_parser loop that ignored such a pair returns, the BIN handler     *)
(* throws the BIN error if the loop applied no attribute and stores the    *)
(* configuration otherwise; an exception of another attribute of the       *)
(* clause ends the run with that exception.                                *)
C23_Step ==
    /\ (AtStep /\ cur.g = "bin" /\ cur.it + 1 < end
          /\ (SameIgnoringCase(tokens[cur.it], t_BINNED)
                \/ SameIgnoringCase(tokens[cur.it], t_NICE))
          /\ ~ IsToggle(tokens[cur.it + 1])) =>
           /\ pc' = "parse" /\ result' = result
           /\ chart' = chart
           /\ stack' = [ stack EXCEPT ![Len(stack)].it = cur.it + 2 ]
           /\ consumed' = consumed \o Ate(<< cur.it, cur.it + 1 >>)
    /\ (LoopDone /\ cur.g = "bin" /\ BinMissed # {}) =>
           IF BinApplied = {}
           THEN pc' = "done" /\ result' = BinError /\ chart' = chart
           ELSE /\ pc' = "parse" /\ result' = result
                /\ chart'[cur.enc].bin = [ kind |-> "obj", b |-> FALSE, obj |-> cur.bin ]
C23_IgnoredToggleNotCounted == [][C23_Step]_vars
C23_Witness ==
    /\ Done /\ result = "ok"
    /\ tokens = << t_X_FIELD, t_price, t_BIN, t_NICE, t_FOO, t_MAXBINS, t_7 >>
    /\ chart.x.bin.kind = "obj"
    /\ chart.x.bin.obj.nice = <<>>
    /\ chart.x.bin.obj.maxbins = << 7 >>

====
